---- MODULE Spec2Model ----
(***************************************************************************)
(* Pass entitlement and role-scoped access of the anygym API.              *)
(*                                                                         *)
(* The relational store is modelled table by table (subscriptions,         *)
(* gym_passes, gyms, admin_users, auth0, events).  Every service method is split  *)
(* at its awaits: each database round trip is one atomic step, and the     *)
(* requests in flight interleave between the steps, as they do on the      *)
(* Node.js event loop with a shared connection pool and no transaction.    *)
(***************************************************************************)
EXTENDS Integers, Sequences, FiniteSets, TLC

VARIABLES
    now,            \* wall clock, in hours
    subscriptions,  \* table subscriptions: row id = index
    gym_passes,     \* table gym_passes: row id = index
    gyms,           \* table gyms: the rows in the order a scan returns them
    admin_users,    \* table admin_users: auth0_id -> row
    auth0,          \* the user ids created in Auth0 by createAdminUser
    events,         \* table events (append only)
    proc,           \* the requests in flight: slot -> locals and position
    calls,          \* number of requests started so far
    resp,           \* outcome of the request that finished last
    ledger,         \* history: per subscription, the passes issued against it
                    \* minus the growth generatePass gave its visits_used
    sweep           \* what the last run of expirePasses logged

vars == <<now, subscriptions, gym_passes, gyms, admin_users, auth0, events, proc, calls, resp, ledger, sweep>>

----------------------------------------------------------------------------
(* Bounds of the model *)

MaxTime == 2
MaxCalls == 2
MaxSubs == 2
MaxPasses == 2

(* Program constants *)

ValidityHours == 2
StandardMonthlyLimit == 5
PremiumMonthlyLimit == 10
EliteMonthlyLimit == 20

\* SQL NULL in a text column, and an absent object
NULL == "NULL"
\* SQL NULL in a timestamp column (valid_until, current_period_start/end)
NoDate == 0
\* SQL NULL in gym_chain_id
NoChain == 0

\* the request slots: two requests are in flight at a time
Procs == {1, 2}
Users == {"auth0|u1"}
StripeIds == {"sub_A", "sub_B"}
\* billing periods <<current_period_start, current_period_end>> as Stripe
\* reports them; 0 is a missing value
CheckoutPeriods == {<<0, 0>>, <<1, 2>>}
WebhookPeriods == {<<1, 2>>, <<2, 3>>, <<2, 0>>, <<0, 0>>}

----------------------------------------------------------------------------
(* Strings and tiers *)

\* String.prototype.toLowerCase over the tier strings of the model
ToLowerCase(s) ==
    CASE s = "Premium" -> "premium"
      [] s = "STANDARD" -> "standard"
      [] s = "Elite" -> "elite"
      [] OTHER -> s

tierLevels == [standard |-> 1, premium |-> 2, elite |-> 3]

TierLevelOr(t, dflt) ==
    IF ToLowerCase(t) \in DOMAIN tierLevels THEN tierLevels[ToLowerCase(t)] ELSE dflt

\* the tier rule on the tiers as they are stored, without toLowerCase
validateTierAccessCaseSensitive(subscriptionTier, gymRequiredTier) ==
    LET subscriptionLevel ==
            IF subscriptionTier \in DOMAIN tierLevels THEN tierLevels[subscriptionTier] ELSE 0
        gymLevel ==
            IF gymRequiredTier \in DOMAIN tierLevels THEN tierLevels[gymRequiredTier] ELSE 999
    IN subscriptionLevel >= gymLevel

\* the tier rule with a gym tier outside the table ranked lowest
validateTierAccessGymLowest(subscriptionTier, gymRequiredTier) ==
    LET subscriptionLevel == TierLevelOr(subscriptionTier, 0)
        gymLevel == TierLevelOr(gymRequiredTier, 0)
    IN subscriptionLevel >= gymLevel

validateTierAccess(subscriptionTier, gymRequiredTier) ==
    LET subscriptionLevel == TierLevelOr(subscriptionTier, 0)
        gymLevel == TierLevelOr(gymRequiredTier, 999)
    IN subscriptionLevel >= gymLevel

tierLimits ==
    [standard |-> [monthlyLimit |-> StandardMonthlyLimit],
     premium  |-> [monthlyLimit |-> PremiumMonthlyLimit],
     elite    |-> [monthlyLimit |-> EliteMonthlyLimit]]

LimitsFor(tier) ==
    IF ToLowerCase(tier) \in DOMAIN tierLimits
    THEN tierLimits[ToLowerCase(tier)]
    ELSE tierLimits.standard

\* table pass_pricing (no method of the repository writes it)
pass_pricing == [standard |-> 500, premium |-> 800]

\* the price looked up under the lower-cased tier
PassCostForLowerCase(tier) ==
    IF ToLowerCase(tier) \in DOMAIN pass_pricing THEN pass_pricing[ToLowerCase(tier)] ELSE 0

PassCostFor(tier) ==
    IF tier \in DOMAIN pass_pricing THEN pass_pricing[tier] ELSE 0

----------------------------------------------------------------------------
(* Rows *)

SubscriptionRow(userId, tier, monthlyLimit, visitsUsed, status, stripeId, pStart, pEnd) ==
    [userId |-> userId, tier |-> tier, monthlyLimit |-> monthlyLimit,
     visitsUsed |-> visitsUsed, status |-> status,
     stripeSubscriptionId |-> stripeId,
     currentPeriodStart |-> pStart, currentPeriodEnd |-> pEnd]

GymPassRow(userId, gymId, passCode, validUntil, createdAt, tier, cost) ==
    [userId |-> userId, gymId |-> gymId, passCode |-> passCode,
     status |-> "active", validUntil |-> validUntil, usedAt |-> NoDate,
     createdAt |-> createdAt, subscriptionTier |-> tier, passCost |-> cost]

GymRow(id, chain, status, tier, name, city) ==
    [id |-> id, gymChainId |-> chain, status |-> status, requiredTier |-> tier,
     name |-> name, city |-> city]

\* a request slot that runs nothing
Idle ==
    [op |-> "none", pc |-> "idle", user |-> NULL, gymId |-> 0,
     sub |-> NULL, ent |-> NULL, entId |-> 0, passId |-> 0,
     tier |-> NULL, stripeId |-> NULL, pStart |-> 0, pEnd |-> 0]

\* what the last finished request answered: its outcome, the rows it returned
\* and the arguments it was called with
Reply(op, user, result, rows, args) ==
    [op |-> op, user |-> user, result |-> result, rows |-> rows, args |-> args]

Response(op, user, result) == Reply(op, user, result, <<>>, <<>>)

----------------------------------------------------------------------------
(* Queries *)

SubIds == 1..Len(subscriptions)
PassIds == 1..Len(gym_passes)

\* WHERE user_id = :auth0Id AND status = 'active'
ActiveSubIds(user) ==
    {i \in SubIds : subscriptions[i].userId = user /\ subscriptions[i].status = "active"}

\* the same query with valid_until >= :now
ValidPassIdsInclusive(user, t) ==
    {i \in PassIds : /\ gym_passes[i].userId = user
                     /\ gym_passes[i].validUntil # NoDate
                     /\ gym_passes[i].validUntil >= t}

\* WHERE user_id = :auth0Id AND valid_until IS NOT NULL AND valid_until > :now
ValidPassIds(user, t) ==
    {i \in PassIds : /\ gym_passes[i].userId = user
                     /\ gym_passes[i].validUntil # NoDate
                     /\ gym_passes[i].validUntil > t}

\* Repository.save of a loaded entity: every column that differs from the
\* stored row is written, so the row ends up equal to the entity in memory
SaveSubscription(id, entity) == [subscriptions EXCEPT ![id] = entity]

\* a new request takes the first free slot (the slots are interchangeable)
FreeSlot(p) ==
    /\ proc[p].pc = "idle"
    /\ \A q \in Procs : q < p => proc[q].pc # "idle"
    /\ calls < MaxCalls

Finish(p, op, user, result) ==
    /\ proc' = [proc EXCEPT ![p] = Idle]
    /\ resp' = Response(op, user, result)

----------------------------------------------------------------------------
(* PassesService.generatePass *)

GymIds == {gyms[i].id : i \in DOMAIN gyms}

\* gymRepository.findOne({ where: { id } }), for an id that has a row
FindGym(gymId) == gyms[CHOOSE i \in DOMAIN gyms : gyms[i].id = gymId]
\* a gym_id that names no row
MissingGymIds == {0}

\* entry: the ownership check, before the first await
GP_Start(p) ==
    /\ FreeSlot(p)
    /\ calls' = calls + 1
    /\ \E user \in Users, own \in BOOLEAN, gymId \in GymIds \cup MissingGymIds :
          IF ~own
          THEN Finish(p, "generatePass", user, "Forbidden")
          ELSE /\ proc' = [proc EXCEPT ![p] =
                      [Idle EXCEPT !.op = "generatePass", !.pc = "gp_sub",
                                   !.user = user, !.gymId = gymId]]
               /\ UNCHANGED resp
    /\ UNCHANGED <<now, subscriptions, gym_passes, gyms, admin_users, auth0, events, ledger, sweep>>

\* the quota test with > in place of >=
QuotaReachedStrict(subscription) == subscription.visits_used > subscription.monthly_limit

\* Step 1.5: subscription.visits_used >= subscription.monthly_limit
QuotaReached(subscription) == subscription.visits_used >= subscription.monthly_limit

\* Step 1 and 1.5: the active subscription, then the quota on the values read
GP_Sub(p) ==
    /\ proc[p].pc = "gp_sub"
    /\ LET user == proc[p].user IN
       IF ActiveSubIds(user) = {}
       THEN Finish(p, "generatePass", user, "NoActiveSubscription")
       ELSE \E id \in ActiveSubIds(user) :
              LET subscription ==
                    [id |-> id,
                     tier |-> subscriptions[id].tier,
                     monthly_limit |-> subscriptions[id].monthlyLimit,
                     visits_used |-> subscriptions[id].visitsUsed]
              IN IF QuotaReached(subscription)
                 THEN Finish(p, "generatePass", user, "QuotaExceeded")
                 ELSE /\ proc' = [proc EXCEPT ![p].pc = "gp_dup", ![p].sub = subscription]
                      /\ UNCHANGED resp
    /\ UNCHANGED <<now, subscriptions, gym_passes, gyms, admin_users, auth0, events, calls, ledger, sweep>>

\* Step 1.6: any pass of the member with valid_until > now
GP_Dup(p) ==
    /\ proc[p].pc = "gp_dup"
    /\ IF ValidPassIds(proc[p].user, now) # {}
       THEN Finish(p, "generatePass", proc[p].user, "DuplicateActivePass")
       ELSE /\ proc' = [proc EXCEPT ![p].pc = "gp_gym"]
            /\ UNCHANGED resp
    /\ UNCHANGED <<now, subscriptions, gym_passes, gyms, admin_users, auth0, events, calls, ledger, sweep>>

\* Steps 2 to 4: the gym, its status, the tier rule, the pricing row
GP_Gym(p) ==
    /\ proc[p].pc = "gp_gym"
    /\ LET user == proc[p].user
           gymId == proc[p].gymId
       IN IF gymId \notin GymIds
          THEN Finish(p, "generatePass", user, "GymNotFound")
          ELSE IF FindGym(gymId).status # "active"
          THEN Finish(p, "generatePass", user, "GymInactive")
          ELSE IF ~validateTierAccess(proc[p].sub.tier, FindGym(gymId).requiredTier)
          THEN Finish(p, "generatePass", user, "TierNotAllowed")
          ELSE /\ proc' = [proc EXCEPT ![p].pc = "gp_save"]
               /\ UNCHANGED resp
    /\ UNCHANGED <<now, subscriptions, gym_passes, gyms, admin_users, auth0, events, calls, ledger, sweep>>

\* the values Math.random().toString(36).substr(2, 9).toUpperCase() takes here
Suffixes == {"K3J9X0QAB", "Z01MM4T7C"}

\* `PASS-${Date.now()}-${Math.random()...}`
PassCode(ts, rnd) == <<"PASS-", ToString(ts), "-", rnd>>

\* Steps 5 and 6: the code, the row, the insert
GP_Save(p) ==
    /\ proc[p].pc = "gp_save"
    /\ Len(gym_passes) < MaxPasses
    /\ \E rnd \in Suffixes :
          LET passCode == PassCode(now, rnd)
              validUntil == now + ValidityHours
              newPass == GymPassRow(proc[p].user, proc[p].gymId, passCode, validUntil,
                                    now, proc[p].sub.tier, PassCostFor(proc[p].sub.tier))
          IN gym_passes' = Append(gym_passes, newPass)
    /\ proc' = [proc EXCEPT ![p].pc = "gp_find", ![p].passId = Len(gym_passes) + 1]
    /\ ledger' = [ledger EXCEPT ![proc[p].sub.id] = @ + 1]
    /\ UNCHANGED <<now, subscriptions, gyms, admin_users, auth0, events, calls, resp, sweep>>

\* Step 6.5, the read: the subscription entity is fetched again
GP_Find(p) ==
    /\ proc[p].pc = "gp_find"
    /\ IF ActiveSubIds(proc[p].user) = {}
       THEN proc' = [proc EXCEPT ![p].pc = "gp_user"]
       ELSE \E id \in ActiveSubIds(proc[p].user) :
              proc' = [proc EXCEPT ![p].pc = "gp_inc", ![p].entId = id,
                                   ![p].ent = subscriptions[id]]
    /\ UNCHANGED <<now, subscriptions, gym_passes, gyms, admin_users, auth0, events, calls, resp, ledger, sweep>>

IncrementVisits(entity) == [entity EXCEPT !.visitsUsed = @ + 1]

\* Step 6.5, the write: visitsUsed += 1 on the entity in memory, then save
GP_Inc(p) ==
    /\ proc[p].pc = "gp_inc"
    /\ subscriptions' = SaveSubscription(proc[p].entId, IncrementVisits(proc[p].ent))
    /\ proc' = [proc EXCEPT ![p].pc = "gp_user"]
    /\ ledger' = [ledger EXCEPT ![proc[p].entId] =
                     @ - (subscriptions'[proc[p].entId].visitsUsed
                          - subscriptions[proc[p].entId].visitsUsed)]
    /\ UNCHANGED <<now, gym_passes, gyms, admin_users, auth0, events, calls, resp, sweep>>

\* table app_users (no modelled method writes it)
app_users ==
    ("auth0|u1" :> [email |-> <<"u", "1", "@", "x">>]
     @@ "auth0|u2" :> [email |-> <<"pass-", "x", "@", "y">>])

\* UsersService.findOneByAuth0Id: the member's row, NotFoundException when
\* there is none, Error('Failed to fetch user: ...') when a query throws
findOneByAuth0Id(auth0Id, queryFails) ==
    IF queryFails
    THEN "Error"
    ELSE IF auth0Id \notin DOMAIN app_users
    THEN "NotFound"
    ELSE "ok"

\* Steps 7 and 8: the member's details (awaited inside the try block, so what
\* it throws leaves generatePass through the catch), the e-mail (not awaited,
\* its rejection is caught and logged), the reply
GP_User(p) ==
    /\ proc[p].pc = "gp_user"
    /\ \E queryFails \in BOOLEAN, emailFails \in BOOLEAN :
          Finish(p, "generatePass", proc[p].user,
                 findOneByAuth0Id(proc[p].user, queryFails))
    /\ UNCHANGED <<now, subscriptions, gym_passes, gyms, admin_users, auth0, events, calls, ledger, sweep>>

----------------------------------------------------------------------------
(* StripeService.handleCheckoutSessionCompleted *)

CheckoutTiers == {"standard", "Premium"}

\* Steps 1 to 3: the session's tier, the customer and its auth0_id
CO_Start(p) ==
    /\ FreeSlot(p)
    /\ calls' = calls + 1
    /\ \E user \in Users, tier \in CheckoutTiers, sid \in StripeIds :
          proc' = [proc EXCEPT ![p] =
              [Idle EXCEPT !.op = "checkout", !.pc = "co_cancel", !.user = user,
                           !.tier = tier, !.stripeId = sid]]
    /\ UNCHANGED <<now, subscriptions, gym_passes, gyms, admin_users, auth0, events, resp, ledger, sweep>>

\* Step 4: UPDATE subscriptions SET status = 'cancelled' WHERE user_id AND status = 'active'
CO_Cancel(p) ==
    /\ proc[p].pc = "co_cancel"
    /\ subscriptions' =
          [i \in SubIds |->
              IF i \in ActiveSubIds(proc[p].user)
              THEN [subscriptions[i] EXCEPT !.status = "cancelled"]
              ELSE subscriptions[i]]
    /\ proc' = [proc EXCEPT ![p].pc = "co_insert"]
    /\ UNCHANGED <<now, gym_passes, gyms, admin_users, auth0, events, calls, resp, ledger, sweep>>

\* Steps 5 and 6: the period of the Stripe subscription (absent when the
\* retrieval fails), then the new row
CO_Insert(p) ==
    /\ proc[p].pc = "co_insert"
    /\ Len(subscriptions) < MaxSubs
    /\ \E period \in CheckoutPeriods :
          LET periodStart == period[1]
              periodEnd == period[2]
              limits == LimitsFor(proc[p].tier)
              newSubscription ==
                 SubscriptionRow(proc[p].user, proc[p].tier, limits.monthlyLimit, 0,
                                 "active", proc[p].stripeId,
                                 IF periodStart # 0 THEN periodStart ELSE NoDate,
                                 IF periodEnd # 0 THEN periodEnd ELSE NoDate)
          IN subscriptions' = Append(subscriptions, newSubscription)
    /\ ledger' = Append(ledger, 0)
    /\ Finish(p, "checkout", proc[p].user, "ok")
    /\ UNCHANGED <<now, gym_passes, gyms, admin_users, auth0, events, calls, sweep>>

----------------------------------------------------------------------------
(* SubscriptionsService.cancelSubscription *)

\* Step 1: the active subscription
CS_Start(p) ==
    /\ FreeSlot(p)
    /\ calls' = calls + 1
    /\ \E user \in Users :
          IF ActiveSubIds(user) = {}
          THEN Finish(p, "cancelSubscription", user, "NotFound")
          ELSE \E id \in ActiveSubIds(user) :
                 IF subscriptions[id].stripeSubscriptionId = NULL
                 THEN Finish(p, "cancelSubscription", user, "BadRequest")
                 ELSE /\ proc' = [proc EXCEPT ![p] =
                             [Idle EXCEPT !.op = "cancelSubscription", !.pc = "cs_save",
                                          !.user = user, !.entId = id,
                                          !.ent = subscriptions[id]]]
                      /\ UNCHANGED resp
    /\ UNCHANGED <<now, subscriptions, gym_passes, gyms, admin_users, auth0, events, ledger, sweep>>

\* Steps 2 to 4: Stripe cancels (or fails, or answers another status), then
\* the entity read in step 1 is saved with status 'cancelled'
CS_Save(p) ==
    /\ proc[p].pc = "cs_save"
    /\ \E canceled \in BOOLEAN :
          IF ~canceled
          THEN /\ Finish(p, "cancelSubscription", proc[p].user, "BadRequest")
               /\ UNCHANGED subscriptions
          ELSE /\ subscriptions' =
                     SaveSubscription(proc[p].entId, [proc[p].ent EXCEPT !.status = "cancelled"])
               /\ Finish(p, "cancelSubscription", proc[p].user, "ok")
    /\ UNCHANGED <<now, gym_passes, gyms, admin_users, auth0, events, calls, ledger, sweep>>

----------------------------------------------------------------------------
(* StripeService.handleSubscriptionUpdated *)

SubIdsByStripeId(sid) == {i \in SubIds : subscriptions[i].stripeSubscriptionId = sid}

\* the row by stripe_subscription_id; the webhook's period dates
SU_Start(p) ==
    /\ FreeSlot(p)
    /\ calls' = calls + 1
    /\ \E sid \in StripeIds, period \in WebhookPeriods :
          LET periodStart == period[1]
              periodEnd == period[2]
          IN
          IF SubIdsByStripeId(sid) = {}
          THEN Finish(p, "subscriptionUpdated", NULL, "skipped")
          ELSE \E id \in SubIdsByStripeId(sid) :
                 IF periodStart = 0 /\ periodEnd = 0
                 THEN Finish(p, "subscriptionUpdated", subscriptions[id].userId, "noop")
                 ELSE /\ proc' = [proc EXCEPT ![p] =
                             [Idle EXCEPT !.op = "subscriptionUpdated", !.pc = "su_update",
                                          !.user = subscriptions[id].userId,
                                          !.stripeId = sid, !.entId = id,
                                          !.ent = subscriptions[id],
                                          !.pStart = periodStart, !.pEnd = periodEnd]]
                      /\ UNCHANGED resp
    /\ UNCHANGED <<now, subscriptions, gym_passes, gyms, admin_users, auth0, events, ledger, sweep>>

\* whether the webhook's period differs from the one read from the row
PeriodChanged(dbSubscription, periodStart, periodEnd) ==
    LET periodStartChanged ==
            /\ periodStart # 0
            /\ dbSubscription.currentPeriodStart # NoDate
            /\ periodStart # dbSubscription.currentPeriodStart
        periodEndChanged ==
            /\ periodEnd # 0
            /\ dbSubscription.currentPeriodEnd # NoDate
            /\ periodEnd # dbSubscription.currentPeriodEnd
    IN periodStartChanged \/ periodEndChanged

\* UPDATE subscriptions SET <updateData> WHERE id = :id
SU_Update(p) ==
    /\ proc[p].pc = "su_update"
    /\ LET id == proc[p].entId
           reset == PeriodChanged(proc[p].ent, proc[p].pStart, proc[p].pEnd)
           row == subscriptions[id]
           row1 == IF proc[p].pEnd # 0 THEN [row EXCEPT !.currentPeriodEnd = proc[p].pEnd] ELSE row
           row2 == IF proc[p].pStart # 0 THEN [row1 EXCEPT !.currentPeriodStart = proc[p].pStart] ELSE row1
           row3 == IF reset THEN [row2 EXCEPT !.visitsUsed = 0] ELSE row2
       IN subscriptions' = [subscriptions EXCEPT ![id] = row3]
    /\ Finish(p, "subscriptionUpdated", proc[p].user, "ok")
    /\ UNCHANGED <<now, gym_passes, gyms, admin_users, auth0, events, calls, ledger, sweep>>

----------------------------------------------------------------------------
(* PassesCronService.expirePasses and the clock *)

\* the rows a sweep with `valid_until < :now` would match
ExpirableStrict(t) ==
    {i \in PassIds : /\ gym_passes[i].status = "active"
                     /\ gym_passes[i].validUntil # NoDate
                     /\ gym_passes[i].validUntil < t}

\* the rows a sweep without `status = 'active'` would match
ExpirableAnyStatus(t) ==
    {i \in PassIds : /\ gym_passes[i].validUntil # NoDate
                     /\ gym_passes[i].validUntil <= t}

\* the rows a sweep would match that looked an hour ahead
ExpirableEarly(t) ==
    {i \in PassIds : /\ gym_passes[i].status = "active"
                     /\ gym_passes[i].validUntil # NoDate
                     /\ gym_passes[i].validUntil <= t + 1}

Expirable(t) ==
    {i \in PassIds : /\ gym_passes[i].status = "active"
                     /\ gym_passes[i].validUntil # NoDate
                     /\ gym_passes[i].validUntil <= t}

\* a sweep whose UPDATE writes nothing
ExpireRowsNone(t) == gym_passes

\* a sweep that expires the overdue rows and stamps used_at on them
ExpireRowsUsed(t) ==
    [i \in PassIds |->
        IF i \in Expirable(t)
        THEN [gym_passes[i] EXCEPT !.status = "expired", !.usedAt = t]
        ELSE gym_passes[i]]

\* UPDATE gym_passes SET status = 'expired' WHERE status = 'active'
\*   AND valid_until IS NOT NULL AND valid_until <= :now
ExpireRows(t) ==
    [i \in PassIds |->
        IF i \in Expirable(t)
        THEN [gym_passes[i] EXCEPT !.status = "expired"]
        ELSE gym_passes[i]]

\* the log of a run: the number of rows it changed, or the error it caught,
\* with the time of the run and the table it left
SweepLog(failed, affected, after) ==
    [ran |-> TRUE, failed |-> failed, affected |-> affected, at |-> now, after |-> after]

NoSweep == [ran |-> FALSE, failed |-> FALSE, affected |-> 0, at |-> 0, after |-> <<>>]

\* one run of the job: the bulk UPDATE goes through and its row count is
\* logged, or it throws and the error is caught and logged
Sweep(fails) ==
    /\ IF fails
       THEN /\ gym_passes' = gym_passes
            /\ sweep' = SweepLog(TRUE, 0, gym_passes)
       ELSE /\ gym_passes' = ExpireRows(now)
            /\ sweep' = SweepLog(FALSE, Cardinality(Expirable(now)), gym_passes')
    /\ UNCHANGED <<now, subscriptions, gyms, admin_users, auth0, events, proc, calls, resp, ledger>>

expirePasses == \E fails \in BOOLEAN : Sweep(fails)

Tick ==
    /\ now < MaxTime
    /\ now' = now + 1
    /\ UNCHANGED <<subscriptions, gym_passes, gyms, admin_users, auth0, events, proc, calls, resp, ledger, sweep>>

----------------------------------------------------------------------------
(* The issuance specification *)

InitGyms ==
    <<GymRow(1, 1, "active", "standard", <<"a", "b">>, <<"L">>),
      GymRow(2, 1, "active", "premium", <<"B", "a">>, <<"L">>),
      GymRow(3, 2, "inactive", "standard", <<"b", "b">>, <<"M">>),
      GymRow(4, 2, "active", "platinum", <<"a">>, <<"M">>),
      GymRow(5, 2, "active", "Elite", <<"x">>, <<"M">>)>>

InitSubscriptionTiers == {"standard", "Premium", "elite"}

Init ==
    /\ now = 0
    /\ \/ /\ subscriptions = <<>>
          /\ ledger = <<>>
       \/ \E tier \in InitSubscriptionTiers, left \in 0..1 :
             LET limit == LimitsFor(tier).monthlyLimit IN
             /\ subscriptions = <<SubscriptionRow("auth0|u1", tier, limit, limit - left,
                                                  "active", "sub_A", 1, 2)>>
             /\ ledger = <<0>>
    /\ gym_passes = <<>>
    /\ gyms = InitGyms
    /\ admin_users = <<>>
    /\ auth0 = {}
    /\ events = <<>>
    /\ proc = [p \in Procs |-> Idle]
    /\ calls = 0
    /\ resp = Response("none", NULL, "none")
    /\ sweep = NoSweep

Next ==
    \/ \E p \in Procs : GP_Start(p)
    \/ \E p \in Procs : GP_Sub(p)
    \/ \E p \in Procs : GP_Dup(p)
    \/ \E p \in Procs : GP_Gym(p)
    \/ \E p \in Procs : GP_Save(p)
    \/ \E p \in Procs : GP_Find(p)
    \/ \E p \in Procs : GP_Inc(p)
    \/ \E p \in Procs : GP_User(p)
    \/ \E p \in Procs : CO_Start(p)
    \/ \E p \in Procs : CO_Cancel(p)
    \/ \E p \in Procs : CO_Insert(p)
    \/ \E p \in Procs : CS_Start(p)
    \/ \E p \in Procs : CS_Save(p)
    \/ \E p \in Procs : SU_Start(p)
    \/ \E p \in Procs : SU_Update(p)
    \/ expirePasses
    \/ Tick

Spec == Init /\ [][Next]_vars

----------------------------------------------------------------------------
(* Claims about issuance under concurrency *)

AllIdle == \A p \in Procs : proc[p].pc = "idle"

\* C1: every member holds at most one pass with valid_until > now, whatever
\* the interleaving of the generatePass calls
C1_OneValidPassPerMember ==
    \A u \in Users : Cardinality(ValidPassIds(u, now)) <= 1

\* C2: visits_used never exceeds monthly_limit on any subscription
C2_QuotaRespected ==
    \A i \in SubIds : subscriptions[i].visitsUsed <= subscriptions[i].monthlyLimit

\* C3: once no request is in flight, generatePass has raised each
\* subscription's visits_used by exactly the number of passes issued against it
\* (no increment is lost or skipped)
C3_IncrementMatchesIssued ==
    AllIdle => \A i \in SubIds : ledger[i] = 0

\* C4: every member has at most one subscription row with status 'active'
C4_OneActiveSubscription ==
    \A u \in Users : Cardinality(ActiveSubIds(u)) <= 1

\* C5: no two gym_passes rows carry the same pass_code
C5_PassCodesUnique ==
    \A i, j \in PassIds : i # j => gym_passes[i].passCode # gym_passes[j].passCode

----------------------------------------------------------------------------
(* Text.  A string is a sequence of tokens (a character, or a group of     *)
(* characters that stays together, such as the prefix of a pass code);     *)
(* matching goes token by token.                                           *)

\* String.prototype.toUpperCase, and the case folding of ILIKE
toUpperCase(tok) ==
    CASE tok = "pass-" -> "PASS-"
      [] tok = "a" -> "A"
      [] tok = "b" -> "B"
      [] tok = "x" -> "X"
      [] OTHER -> tok

\* text ILIKE '%term%'
ILike(text, term) ==
    \E k \in 0..(Len(text) - Len(term)) :
        \A i \in 1..Len(term) : toUpperCase(text[k + i]) = toUpperCase(term[i])

RECURSIVE TrimStart(_)
TrimStart(s) == IF s # <<>> /\ Head(s) = " " THEN TrimStart(Tail(s)) ELSE s

RECURSIVE TrimEnd(_)
TrimEnd(s) ==
    IF s # <<>> /\ s[Len(s)] = " " THEN TrimEnd(SubSeq(s, 1, Len(s) - 1)) ELSE s

\* String.prototype.trim
trim(s) == TrimEnd(TrimStart(s))

\* s.toUpperCase().startsWith('PASS-')
startsWithPass(s) == s # <<>> /\ toUpperCase(Head(s)) = "PASS-"

\* the search parameter is absent (or the empty string): !!search is false
NoSearch == <<>>

\* a jsonb array column, or an optional array of a request body
NullArray == [isNull |-> TRUE, items |-> <<>>]
JsonArray(items) == [isNull |-> FALSE, items |-> items]

\* Array.prototype.includes
includes(array, x) == \E i \in DOMAIN array.items : array.items[i] = x

Min(a, b) == IF a < b THEN a ELSE b
Max(a, b) == IF a > b THEN a ELSE b

\* a page that comes one row short
SkipTakeShort(rows, offset, take) ==
    SubSeq(rows, offset + 1, Min(offset + take, Len(rows)) - 1)

\* QueryBuilder.skip(offset).take(take) over the rows of a query
SkipTake(rows, offset, take) ==
    SubSeq(rows, offset + 1, Min(offset + take, Len(rows)))

\* Array.prototype.slice(start, end)
slice(rows, start, end) ==
    LET from == IF start < 0 THEN Max(Len(rows) + start, 0) ELSE Min(start, Len(rows))
        to == IF end < 0 THEN Max(Len(rows) + end, 0) ELSE Min(end, Len(rows))
    IN SubSeq(rows, from + 1, to)

\* the indexes of a table as a sequence, and the rows that pass a test
Indexes(table) == [i \in 1..Len(table) |-> i]

\* ORDER BY created_at DESC over a set of gym_passes ids (equal dates come in
\* id order)
OrderByCreatedAtDesc(ids) ==
    LET Before(j, i) ==
            \/ gym_passes[j].createdAt > gym_passes[i].createdAt
            \/ gym_passes[j].createdAt = gym_passes[i].createdAt /\ j < i
    IN [k \in 1..Cardinality(ids) |->
            CHOOSE i \in ids : Cardinality({j \in ids : Before(j, i)}) = k - 1]

----------------------------------------------------------------------------
(* Staff accounts and their filters *)

pageSize == 20

\* permission is NULL on a row that createAdminUser did not write
AdminUserRow(chain, role, accessGyms) ==
    [gymChainId |-> chain, role |-> role, accessGyms |-> accessGyms, permission |-> NULL]

\* the row of an account made by createAdminUser with this permission
WithPermission(adminUser, permission) == [adminUser EXCEPT !.permission = permission]

EventRow(userId, adminUser, gymId, gymChainId, eventType) ==
    [userId |-> userId, adminUser |-> adminUser, gymId |-> gymId,
     gymChainId |-> gymChainId, eventType |-> eventType]

\* a dispatch that filters on the chain id without looking whether there is one
RoleFilterChainUnchecked(adminUser) ==
    IF adminUser.role = "admin"
    THEN "chain"
    ELSE IF adminUser.role = "gym_admin" \/ adminUser.role = "gym_staff"
    THEN IF ~adminUser.accessGyms.isNull /\ Len(adminUser.accessGyms.items) > 0
         THEN "gyms" ELSE "none"
    ELSE "none"

\* the role dispatch every staff read starts with: the filter the query gets
RoleFilter(adminUser) ==
    IF adminUser.role = "admin"
    THEN IF adminUser.gymChainId # NoChain THEN "chain" ELSE "none"
    ELSE IF adminUser.role = "gym_admin" \/ adminUser.role = "gym_staff"
    THEN IF ~adminUser.accessGyms.isNull /\ Len(adminUser.accessGyms.items) > 0
         THEN "gyms" ELSE "none"
    ELSE "none"

\* gym.gymChainId = :gymChainId, or gym.id IN (:...gymIds)
GymWhere(adminUser, gym) ==
    IF RoleFilter(adminUser) = "chain"
    THEN gym.gymChainId = adminUser.gymChainId
    ELSE includes(adminUser.accessGyms, gym.id)

\* a page of results with its pagination block
Page(rows, total, page) ==
    [result |-> "ok", rows |-> rows, total_results |-> total, page |-> page]

\* an exception instead of a result
Thrown(exception) ==
    [result |-> exception, rows |-> <<>>, total_results |-> 0, page |-> 0]

Ids(rows) == [i \in 1..Len(rows) |-> rows[i].id]

----------------------------------------------------------------------------
(* UsersService: the staff reads, as functions of the tables *)

findAdminGyms(auth0Id, page, search) ==
    LET offset == (page - 1) * pageSize
        isSearchMode == search # NoSearch
    IN IF auth0Id \notin DOMAIN admin_users
       THEN Thrown("Forbidden")
       ELSE LET adminUser == admin_users[auth0Id]
                Where(gym) ==
                    /\ GymWhere(adminUser, gym)
                    /\ isSearchMode => (ILike(gym.name, search) \/ ILike(gym.city, search))
                matching == SelectSeq(gyms, Where)
                totalResults == Len(matching)
            IN IF RoleFilter(adminUser) = "none"
               THEN Page(<<>>, 0, IF isSearchMode THEN 1 ELSE page)
               ELSE IF isSearchMode
               THEN Page(Ids(matching), totalResults, 1)
               ELSE IF offset < 0
               THEN Thrown("Error")     \* OFFSET must not be negative
               ELSE Page(Ids(SkipTake(matching, offset, pageSize)), totalResults, page)

findAdminLocations(auth0Id) ==
    IF auth0Id \notin DOMAIN admin_users
    THEN Thrown("Forbidden")
    ELSE LET adminUser == admin_users[auth0Id]
             Where(gym) == GymWhere(adminUser, gym)
             matching == SelectSeq(gyms, Where)
         IN IF RoleFilter(adminUser) = "none"
            THEN Page(<<>>, 0, 1)
            ELSE Page(Ids(matching), Len(matching), 1)

\* events.gym_id and events.gym_chain_id are VARCHAR: the account's numbers
\* are compared as strings
findAdminEvents(auth0Id) ==
    IF auth0Id \notin DOMAIN admin_users
    THEN Thrown("Forbidden")
    ELSE LET adminUser == admin_users[auth0Id]
             gymIdsAsStrings ==
                 {ToString(adminUser.accessGyms.items[i]) : i \in DOMAIN adminUser.accessGyms.items}
             Where(i) ==
                 IF RoleFilter(adminUser) = "chain"
                 THEN events[i].gymChainId = ToString(adminUser.gymChainId)
                 ELSE events[i].gymId \in gymIdsAsStrings
             matching == SelectSeq(Indexes(events), Where)
         IN IF RoleFilter(adminUser) = "none"
            THEN Page(<<>>, 0, 1)
            ELSE Page(matching, Len(matching), 1)

\* the passes joined to their gym that a members query keeps
MemberPassIds(adminUser, search) ==
    {i \in PassIds :
        /\ gym_passes[i].gymId \in GymIds
        /\ GymWhere(adminUser, FindGym(gym_passes[i].gymId))
        /\ search # NoSearch =>
              /\ gym_passes[i].userId \in DOMAIN app_users
              /\ ILike(app_users[gym_passes[i].userId].email, search)}

\* GROUP BY user.auth0Id, user.email: one row per member (in the order of
\* each member's first pass)
MemberRows(passIds, t) ==
    LET First(u) == CHOOSE i \in passIds :
                       /\ gym_passes[i].userId = u
                       /\ \A j \in passIds : gym_passes[j].userId = u => i <= j
        Leads(i) == i \in passIds /\ First(gym_passes[i].userId) = i
        Group(i) ==
            LET own == {j \in passIds : gym_passes[j].userId = gym_passes[i].userId}
            IN [auth0_id |-> gym_passes[i].userId,
                passes |-> Cardinality(own),
                has_active_pass |->
                    \E j \in own : /\ gym_passes[j].validUntil # NoDate
                                   /\ gym_passes[j].validUntil > t]
        leaders == SelectSeq(Indexes(gym_passes), Leads)
    IN [k \in 1..Len(leaders) |-> Group(leaders[k])]

findAdminMembers(auth0Id, page, search) ==
    LET offset == (page - 1) * pageSize
        isSearchMode == search # NoSearch
    IN IF auth0Id \notin DOMAIN admin_users
       THEN Thrown("Forbidden")
       ELSE LET adminUser == admin_users[auth0Id]
                allResults == MemberRows(MemberPassIds(adminUser, search), now)
                totalResults == Len(allResults)
            IN IF RoleFilter(adminUser) = "none"
               THEN Page(<<>>, 0, IF isSearchMode THEN 1 ELSE page)
               ELSE IF isSearchMode
               THEN Page(allResults, totalResults, 1)
               ELSE Page(slice(allResults, offset, offset + pageSize), totalResults, page)

\* a WHERE clause whose search alternatives are not grouped:
\* scope AND code ILIKE :search OR email ILIKE :search
PassWhereUngrouped(adminUser, search, i) ==
    LET searchTerm ==
            IF ~startsWithPass(trim(search))
            THEN <<"PASS-">> \o trim(search)
            ELSE trim(search)
        inScope ==
            IF RoleFilter(adminUser) = "chain"
            THEN FindGym(gym_passes[i].gymId).gymChainId = adminUser.gymChainId
            ELSE includes(adminUser.accessGyms, gym_passes[i].gymId)
    IN IF search = NoSearch
       THEN inScope
       ELSE \/ inScope /\ ILike(gym_passes[i].passCode, searchTerm)
            \/ /\ gym_passes[i].userId \in DOMAIN app_users
               /\ ILike(app_users[gym_passes[i].userId].email, searchTerm)

\* the WHERE clause of the passes listing, for pass row i
PassWhere(adminUser, search, i) ==
    LET searchTerm ==
            IF ~startsWithPass(trim(search))
            THEN <<"PASS-">> \o trim(search)
            ELSE trim(search)
        inScope ==
            IF RoleFilter(adminUser) = "chain"
            THEN FindGym(gym_passes[i].gymId).gymChainId = adminUser.gymChainId
            ELSE includes(adminUser.accessGyms, gym_passes[i].gymId)
    IN /\ inScope
       /\ search # NoSearch =>
             \/ ILike(gym_passes[i].passCode, searchTerm)
             \/ /\ gym_passes[i].userId \in DOMAIN app_users
                /\ ILike(app_users[gym_passes[i].userId].email, searchTerm)

findAdminPasses(auth0Id, page, search) ==
    LET offset == (page - 1) * pageSize
        isSearchMode == search # NoSearch
    IN IF auth0Id \notin DOMAIN admin_users
       THEN Thrown("Forbidden")
       ELSE LET adminUser == admin_users[auth0Id]
                matching ==
                    OrderByCreatedAtDesc(
                        {i \in PassIds : /\ gym_passes[i].gymId \in GymIds
                                         /\ PassWhere(adminUser, search, i)})
                totalResults == Len(matching)
            IN IF RoleFilter(adminUser) = "none"
               THEN Page(<<>>, 0, IF isSearchMode THEN 1 ELSE page)
               ELSE IF isSearchMode
               THEN Page(matching, totalResults, 1)
               ELSE IF offset < 0
               THEN Thrown("Error")     \* OFFSET must not be negative
               ELSE Page(SkipTake(matching, offset, pageSize), totalResults, page)

\* the passes query of the member view: pass.userId = :memberAuth0Id, and the
\* role's condition where the dispatch adds one
MemberViewWhere(adminUser, memberAuth0Id, i) ==
    /\ gym_passes[i].userId = memberAuth0Id
    /\ RoleFilter(adminUser) # "none" =>
          /\ gym_passes[i].gymId \in GymIds
          /\ GymWhere(adminUser, FindGym(gym_passes[i].gymId))

findAdminMemberView(adminAuth0Id, memberAuth0Id) ==
    IF adminAuth0Id \notin DOMAIN admin_users
    THEN Thrown("Forbidden")
    ELSE IF memberAuth0Id \notin DOMAIN app_users
    THEN Thrown("NotFound")
    ELSE LET adminUser == admin_users[adminAuth0Id]
             passes == OrderByCreatedAtDesc(
                          {i \in PassIds : MemberViewWhere(adminUser, memberAuth0Id, i)})
         IN Page(passes, Len(passes), 1)

----------------------------------------------------------------------------
(* UsersService: the staff operations as steps.  The rows an operation     *)
(* reads for its authorisation (the caller's account, a gym's chain) are   *)
(* written by no operation, so each request is one step; its answer is     *)
(* sent before the next request is taken.                                  *)

MaxPage == 2
MaxEvents == 4

\* the caller's id as the guard extracts it from the token: an account of
\* admin_users, or an id that has none
Callers == DOMAIN admin_users \cup {"auth0|nobody"}
\* ?page= goes through ParseIntPipe only: zero is accepted
Pages == 0..MaxPage
Searches == {NoSearch, <<"a">>, <<"X">>, <<" ">>, <<"pass-", "0">>}
Members == DOMAIN app_users \cup {"auth0|ghost"}

NoResponse == Response("none", NULL, "none")

\* no answer is waiting to be sent
Ready == resp = NoResponse

Answer(op, user, out, args) ==
    resp' = Reply(op, user, out.result, out.rows, args)

\* AdminController: the handler returns what the service answered
SendResponse ==
    /\ ~Ready
    /\ resp' = NoResponse
    /\ UNCHANGED <<now, subscriptions, gym_passes, gyms, admin_users, auth0, events, proc, calls, ledger, sweep>>

FindAdminGyms ==
    /\ Ready
    /\ \E auth0Id \in Callers, page \in Pages, search \in Searches :
          Answer("findAdminGyms", auth0Id, findAdminGyms(auth0Id, page, search),
                 [page |-> page, search |-> search])
    /\ UNCHANGED <<now, subscriptions, gym_passes, gyms, admin_users, auth0, events, proc, calls, ledger, sweep>>

FindAdminLocations ==
    /\ Ready
    /\ \E auth0Id \in Callers :
          Answer("findAdminLocations", auth0Id, findAdminLocations(auth0Id), <<>>)
    /\ UNCHANGED <<now, subscriptions, gym_passes, gyms, admin_users, auth0, events, proc, calls, ledger, sweep>>

FindAdminEvents ==
    /\ Ready
    /\ \E auth0Id \in Callers :
          Answer("findAdminEvents", auth0Id, findAdminEvents(auth0Id), <<>>)
    /\ UNCHANGED <<now, subscriptions, gym_passes, gyms, admin_users, auth0, events, proc, calls, ledger, sweep>>

FindAdminMembers ==
    /\ Ready
    /\ \E auth0Id \in Callers, page \in Pages, search \in Searches :
          Answer("findAdminMembers", auth0Id, findAdminMembers(auth0Id, page, search),
                 [page |-> page, search |-> search])
    /\ UNCHANGED <<now, subscriptions, gym_passes, gyms, admin_users, auth0, events, proc, calls, ledger, sweep>>

FindAdminPasses ==
    /\ Ready
    /\ \E auth0Id \in Callers, page \in Pages, search \in Searches :
          Answer("findAdminPasses", auth0Id, findAdminPasses(auth0Id, page, search),
                 [page |-> page, search |-> search])
    /\ UNCHANGED <<now, subscriptions, gym_passes, gyms, admin_users, auth0, events, proc, calls, ledger, sweep>>

\* the view, then the 'personal_data' event that records it
FindAdminMemberView ==
    /\ Ready
    /\ Len(events) < MaxEvents
    /\ \E adminAuth0Id \in Callers, memberAuth0Id \in Members :
          LET out == findAdminMemberView(adminAuth0Id, memberAuth0Id) IN
          /\ Answer("findAdminMemberView", adminAuth0Id, out, [member |-> memberAuth0Id])
          /\ IF out.result = "ok"
             THEN LET adminUser == admin_users[adminAuth0Id]
                      newEvent ==
                          EventRow(memberAuth0Id, adminAuth0Id, NULL,
                                   IF adminUser.gymChainId # NoChain
                                   THEN ToString(adminUser.gymChainId) ELSE NULL,
                                   "personal_data")
                  IN events' = Append(events, newEvent)
             ELSE UNCHANGED events
    /\ UNCHANGED <<now, subscriptions, gym_passes, gyms, admin_users, auth0, proc, calls, ledger, sweep>>

\* a field the request body does not provide
Undefined == "undefined"

\* the request bodies of PUT gyms/update (UpdateAdminGymDto), by the fields
\* they provide; status and required_tier stand for the twelve optional
\* fields, which the code copies one like the other
UpdateBodies ==
    {[status |-> Undefined, required_tier |-> Undefined],
     [status |-> "inactive", required_tier |-> Undefined],
     [status |-> Undefined, required_tier |-> "premium"]}

hasUpdates(updateData) ==
    updateData.required_tier # Undefined \/ updateData.status # Undefined

\* Object.assign(gym, updateObject), updateObject holding the provided fields
Assign(gym, updateData) ==
    [gym EXCEPT
        !.requiredTier = IF updateData.required_tier # Undefined
                         THEN updateData.required_tier ELSE @,
        !.status = IF updateData.status # Undefined THEN updateData.status ELSE @]

\* gymRepository.save(gym): the row is rewritten; the new version of the row
\* is what a later scan meets last
SaveGym(gym) ==
    LET Others(row) == row.id # gym.id
    IN Append(SelectSeq(gyms, Others), gym)

\* the outcome of updateAdminGym's checks, in the order the code makes them
updateAdminGymCheck(auth0Id, gymId, updateData) ==
    IF auth0Id \notin DOMAIN admin_users
    THEN "Forbidden"
    ELSE LET adminUser == admin_users[auth0Id] IN
         IF adminUser.role # "admin" /\ adminUser.role # "gym_admin" /\ adminUser.role # "gym_staff"
         THEN "Forbidden"
         ELSE IF gymId \notin GymIds
         THEN "NotFound"
         ELSE IF adminUser.role = "admin" /\ adminUser.gymChainId # FindGym(gymId).gymChainId
         THEN "Forbidden"
         ELSE IF /\ adminUser.role # "admin"
                 /\ (adminUser.accessGyms.isNull \/ ~includes(adminUser.accessGyms, gymId))
         THEN "Forbidden"
         ELSE IF ~hasUpdates(updateData)
         THEN "Error"
         ELSE "ok"

UpdateTargets == {1, 2, 3, 10} \cup MissingGymIds

UpdateAdminGym ==
    /\ Ready
    /\ Len(events) < MaxEvents
    /\ \E auth0Id \in Callers, gymId \in UpdateTargets, updateData \in UpdateBodies :
          LET outcome == updateAdminGymCheck(auth0Id, gymId, updateData) IN
          /\ resp' = Reply("updateAdminGym", auth0Id, outcome, <<>>,
                           [gymId |-> gymId, updateData |-> updateData])
          /\ IF outcome = "ok"
             THEN LET gym == FindGym(gymId)
                      event ==
                          EventRow(NULL, auth0Id, ToString(gymId),
                                   IF gym.gymChainId # NoChain
                                   THEN ToString(gym.gymChainId) ELSE NULL,
                                   "gym_update")
                  IN /\ gyms' = SaveGym(Assign(gym, updateData))
                     /\ events' = Append(events, event)
             ELSE UNCHANGED <<gyms, events>>
    /\ UNCHANGED <<now, subscriptions, gym_passes, admin_users, auth0, proc, calls, ledger, sweep>>

\* the bodies of POST user/create (CreateAdminUserDto): role is one of
\* 'gym_admin' and 'gym_staff' (IsIn), access_gyms is optional
CreateRoles == {"gym_admin", "gym_staff"}
\* permission is one of 'read' and 'write' (IsIn)
CreatePermissions == {"read", "write"}
CreateAccessGyms ==
    {NullArray, JsonArray(<<>>), JsonArray(<<1>>), JsonArray(<<2>>),
     JsonArray(<<10, 11>>), JsonArray(<<1, 0>>)}
\* the user_id Auth0 gives the account it creates: a fresh one, or one that
\* admin_users already holds a row for (the case Step 6 guards against)
Auth0UserIds == {"auth0|n1", "auth0|norole"}

\* createAdminUser's checks without Step 4's comparison with the creator's gyms
createAdminUserCheckNoSubset(adminAuth0Id, createUserDto) ==
    IF adminAuth0Id \notin DOMAIN admin_users
    THEN "Forbidden"
    ELSE LET adminUser == admin_users[adminAuth0Id]
             access_gyms == createUserDto.access_gyms
             notFoundGyms ==
                 {i \in DOMAIN access_gyms.items : access_gyms.items[i] \notin GymIds}
             gymsNotInChain ==
                 {i \in DOMAIN access_gyms.items :
                     FindGym(access_gyms.items[i]).gymChainId # adminUser.gymChainId}
         IN IF adminUser.role # "admin" /\ adminUser.role # "gym_admin"
            THEN "Forbidden"
            ELSE IF adminUser.gymChainId = NoChain
            THEN "BadRequest"
            ELSE IF ~access_gyms.isNull /\ Len(access_gyms.items) > 0
                    /\ (notFoundGyms # {} \/ gymsNotInChain # {})
            THEN "BadRequest"
            ELSE "ok"

\* createAdminUser's checks without Steps 2 and 3, the checks of the role
createAdminUserCheckAnyRole(adminAuth0Id, createUserDto) ==
    IF adminAuth0Id \notin DOMAIN admin_users
    THEN "Forbidden"
    ELSE LET adminUser == admin_users[adminAuth0Id]
             access_gyms == createUserDto.access_gyms
             invalidGyms ==
                 {i \in DOMAIN access_gyms.items :
                     adminUser.accessGyms.isNull
                     \/ ~includes(adminUser.accessGyms, access_gyms.items[i])}
             notFoundGyms ==
                 {i \in DOMAIN access_gyms.items : access_gyms.items[i] \notin GymIds}
             gymsNotInChain ==
                 {i \in DOMAIN access_gyms.items :
                     FindGym(access_gyms.items[i]).gymChainId # adminUser.gymChainId}
         IN IF adminUser.gymChainId = NoChain
            THEN "BadRequest"
            ELSE IF ~access_gyms.isNull /\ Len(access_gyms.items) > 0
                    /\ (\/ adminUser.role = "gym_admin" /\ invalidGyms # {}
                        \/ notFoundGyms # {}
                        \/ gymsNotInChain # {})
            THEN "BadRequest"
            ELSE "ok"

\* the outcome of createAdminUser's checks before the call to Auth0
createAdminUserCheck(adminAuth0Id, createUserDto) ==
    IF adminAuth0Id \notin DOMAIN admin_users
    THEN "Forbidden"
    ELSE LET adminUser == admin_users[adminAuth0Id]
             access_gyms == createUserDto.access_gyms
             invalidGyms ==
                 {i \in DOMAIN access_gyms.items :
                     adminUser.accessGyms.isNull
                     \/ ~includes(adminUser.accessGyms, access_gyms.items[i])}
             notFoundGyms ==
                 {i \in DOMAIN access_gyms.items : access_gyms.items[i] \notin GymIds}
             gymsNotInChain ==
                 {i \in DOMAIN access_gyms.items :
                     FindGym(access_gyms.items[i]).gymChainId # adminUser.gymChainId}
         IN IF adminUser.role = "gym_staff"
            THEN "Forbidden"
            ELSE IF adminUser.role # "admin" /\ adminUser.role # "gym_admin"
            THEN "Forbidden"
            ELSE IF adminUser.gymChainId = NoChain
            THEN "BadRequest"
            ELSE IF ~access_gyms.isNull /\ Len(access_gyms.items) > 0
            THEN IF adminUser.role = "gym_admin" /\ invalidGyms # {}
                 THEN "BadRequest"
                 ELSE IF notFoundGyms # {}
                 THEN "BadRequest"
                 ELSE IF gymsNotInChain # {}
                 THEN "BadRequest"
                 ELSE "ok"
            ELSE "ok"

CreateAdminUser ==
    /\ Ready
    /\ Len(events) < MaxEvents
    /\ \E adminAuth0Id \in Callers, role \in CreateRoles, access_gyms \in CreateAccessGyms,
          permission \in CreatePermissions,
          auth0UserId \in Auth0UserIds \ auth0, auth0Fails \in BOOLEAN :
          LET createUserDto ==
                  [role |-> role, permission |-> permission, access_gyms |-> access_gyms]
              check == createAdminUserCheck(adminAuth0Id, createUserDto)
              outcome ==
                  IF check # "ok" THEN check
                  ELSE IF auth0Fails THEN "BadRequest"
                  ELSE IF auth0UserId \in DOMAIN admin_users THEN "BadRequest"
                  ELSE "ok"
          IN
          /\ resp' = Reply("createAdminUser", adminAuth0Id, outcome, <<>>,
                           [auth0UserId |-> auth0UserId, createUserDto |-> createUserDto])
          /\ IF outcome = "ok"
             THEN LET adminUser == admin_users[adminAuth0Id]
                      newAdminUser ==
                          WithPermission(
                              AdminUserRow(adminUser.gymChainId, createUserDto.role,
                                           IF ~access_gyms.isNull /\ Len(access_gyms.items) > 0
                                           THEN access_gyms ELSE NullArray),
                              createUserDto.permission)
                      newEvent ==
                          EventRow(NULL, adminAuth0Id, NULL,
                                   ToString(adminUser.gymChainId), "new_user")
                  IN /\ admin_users' = (auth0UserId :> newAdminUser) @@ admin_users
                     /\ events' = Append(events, newEvent)
             ELSE UNCHANGED <<admin_users, events>>
          \* Step 5: the Auth0 account exists from here on, whatever Step 6 finds
          /\ auth0' = IF check = "ok" /\ ~auth0Fails
                      THEN auth0 \cup {auth0UserId} ELSE auth0
    /\ UNCHANGED <<now, subscriptions, gym_passes, gyms, proc, calls, ledger, sweep>>

----------------------------------------------------------------------------
(* UsersService.checkInPass *)

\* passCode.trim(), with 'PASS-' put in front unless the code, in upper case,
\* starts with it
NormalizePassCode(passCode) ==
    LET normalizedPassCode == trim(passCode)
    IN IF ~startsWithPass(normalizedPassCode)
       THEN <<"PASS-">> \o normalizedPassCode
       ELSE normalizedPassCode

\* pass INNER JOIN gym WHERE pass.pass_code = :passCode
PassIdsByCode(passCode) ==
    {i \in PassIds : gym_passes[i].passCode = passCode /\ gym_passes[i].gymId \in GymIds}

\* a check-in that takes only a pass that is active and not yet due
checkInPassActiveOnly(adminAuth0Id, id) ==
    IF adminAuth0Id \notin DOMAIN admin_users
    THEN Thrown("Forbidden")
    ELSE LET adminUser == admin_users[adminAuth0Id] IN
         IF adminUser.gymChainId = NoChain
         THEN Thrown("BadRequest")
         ELSE IF id = 0
         THEN Thrown("NotFound")
         ELSE LET passGymChainId == FindGym(gym_passes[id].gymId).gymChainId IN
              IF passGymChainId = NoChain \/ passGymChainId # adminUser.gymChainId
              THEN Thrown("BadRequest")
              ELSE IF gym_passes[id].status # "active" \/ gym_passes[id].validUntil <= now
              THEN Thrown("BadRequest")
              ELSE [result |-> "ok", rows |-> <<id>>]

\* the answer when the lookup gave the pass `id` (0: it gave none)
checkInPass(adminAuth0Id, id) ==
    IF adminAuth0Id \notin DOMAIN admin_users
    THEN Thrown("Forbidden")
    ELSE LET adminUser == admin_users[adminAuth0Id] IN
         IF adminUser.gymChainId = NoChain
         THEN Thrown("BadRequest")
         ELSE IF id = 0
         THEN Thrown("NotFound")
         ELSE LET passGymChainId == FindGym(gym_passes[id].gymId).gymChainId IN
              IF passGymChainId = NoChain \/ passGymChainId # adminUser.gymChainId
              THEN Thrown("BadRequest")
              ELSE [result |-> "ok", rows |-> <<id>>]

\* the codes a desk types or scans: a stored code, the same without its
\* prefix, with the prefix in lower case, with blanks around it, the code of
\* a pass issued an hour before the run, and a code that no pass has
CheckInCodes ==
    {PassCode(0, "K3J9X0QAB"), <<"0", "-", "K3J9X0QAB">>,
     <<"pass-", "0", "-", "K3J9X0QAB">>, <<" ", "1", "-", "Z01MM4T7C", " ">>,
     <<"-1", "-", "K3J9X0QAB">>, <<"9", "-", "K3J9X0QAB">>}

CheckInPass ==
    /\ Ready
    /\ \E adminAuth0Id \in Callers, passCode \in CheckInCodes :
          LET matches == PassIdsByCode(NormalizePassCode(passCode))
          IN \E id \in (IF matches = {} THEN {0} ELSE matches) :
                Answer("checkInPass", adminAuth0Id, checkInPass(adminAuth0Id, id),
                       [passCode |-> passCode])
    /\ UNCHANGED <<now, subscriptions, gym_passes, gyms, admin_users, auth0, events, proc, calls, ledger, sweep>>

----------------------------------------------------------------------------
(* The staff specification *)

NumGyms == 23

\* gym 1 and the gyms from 4 on belong to chain 1, gym 2 to chain 2, gym 3 to
\* no chain
AdminGym(id) ==
    CASE id = 1 -> GymRow(1, 1, "active", "standard", <<"a", "b">>, <<"L">>)
      [] id = 2 -> GymRow(2, 2, "active", "premium", <<"B", "a">>, <<"x">>)
      [] id = 3 -> GymRow(3, NoChain, "active", "standard", <<"b", "b">>, <<"M">>)
      [] OTHER -> GymRow(id, 1, "active", "standard", <<"c">>, <<"L">>)

\* the table as a scan without ORDER BY returns it: in the order of the ids,
\* or in the reverse order
InitAdminGyms(reversed) ==
    [i \in 1..NumGyms |-> AdminGym(IF reversed THEN NumGyms + 1 - i ELSE i)]

InitAdminUsers ==
    ("auth0|chain1" :> AdminUserRow(1, "admin", NullArray)
     @@ "auth0|nochain" :> AdminUserRow(NoChain, "admin", NullArray)
     @@ "auth0|gymadmin" :>
           WithPermission(AdminUserRow(1, "gym_admin", JsonArray(<<10, 11>>)), "read")
     @@ "auth0|gymadmin0" :> WithPermission(AdminUserRow(1, "gym_admin", NullArray), "write")
     @@ "auth0|staff" :>
           WithPermission(AdminUserRow(2, "gym_staff", JsonArray(<<2, 3, 0>>)), "write")
     @@ "auth0|staff0" :> WithPermission(AdminUserRow(1, "gym_staff", JsonArray(<<>>)), "read")
     @@ "auth0|manager" :> AdminUserRow(1, "manager", JsonArray(<<1>>))
     @@ "auth0|norole" :> AdminUserRow(2, NULL, JsonArray(<<2>>)))

InitAdminPasses ==
    <<GymPassRow("auth0|u1", 1, PassCode(0, "K3J9X0QAB"), ValidityHours, 0, "standard", 0),
      GymPassRow("auth0|u1", 2, PassCode(0, "Z01MM4T7C"), ValidityHours, 0, "premium", 0),
      GymPassRow("auth0|u2", 3, PassCode(1, "K3J9X0QAB"), 1 + ValidityHours, 1, "standard", 0),
      GymPassRow("auth0|u2", 10, PassCode(1, "Z01MM4T7C"), 1 + ValidityHours, 1, "standard", 0)>>

InitAdminEvents ==
    <<EventRow(NULL, "auth0|chain1", "1", "1", "gym_update"),
      EventRow(NULL, "auth0|staff", "2", "2", "gym_update"),
      EventRow("auth0|u2", "auth0|nochain", NULL, NULL, "personal_data")>>

InitAdmin ==
    /\ now = 1
    /\ subscriptions = <<>>
    /\ ledger = <<>>
    /\ gym_passes = InitAdminPasses
    /\ \E reversed \in BOOLEAN : gyms = InitAdminGyms(reversed)
    /\ admin_users = InitAdminUsers
    /\ auth0 = {}
    /\ events = InitAdminEvents
    /\ proc = [p \in Procs |-> Idle]
    /\ calls = 0
    /\ resp = NoResponse
    /\ sweep = NoSweep

NextAdmin ==
    \/ FindAdminGyms
    \/ FindAdminLocations
    \/ FindAdminEvents
    \/ FindAdminMembers
    \/ FindAdminPasses
    \/ FindAdminMemberView
    \/ UpdateAdminGym
    \/ CreateAdminUser
    \/ CheckInPass
    \/ SendResponse

SpecAdmin == InitAdmin /\ [][NextAdmin]_vars

----------------------------------------------------------------------------
(* Claims about the scope of staff accounts *)

GymRoles == {"gym_admin", "gym_staff"}

AssignedGyms(account) ==
    {account.accessGyms.items[i] : i \in DOMAIN account.accessGyms.items}

\* the account resolves to the empty scope: an unrecognised role, 'admin'
\* without a chain id, gym_admin or gym_staff without assigned gyms
EmptyScope(account) ==
    \/ account.role = "admin" /\ account.gymChainId = NoChain
    \/ account.role \in GymRoles /\ AssignedGyms(account) = {}
    \/ account.role \notin GymRoles \cup {"admin"}

\* the gym is one the account may see
GymInScope(account, gymId) ==
    /\ ~EmptyScope(account)
    /\ gymId \in GymIds
    /\ IF account.role = "admin"
       THEN FindGym(gymId).gymChainId = account.gymChainId
       ELSE gymId \in AssignedGyms(account)

\* the event carries the account's chain (admin) or one of its gyms
EventInScope(account, event) ==
    /\ ~EmptyScope(account)
    /\ IF account.role = "admin"
       THEN event.gymChainId = ToString(account.gymChainId)
       ELSE \E g \in AssignedGyms(account) : event.gymId = ToString(g)

Range(seq) == {seq[i] : i \in DOMAIN seq}

NothingReturned(out) == out.result = "ok" /\ out.rows = <<>>

Listings ==
    {"findAdminGyms", "findAdminLocations", "findAdminMembers", "findAdminPasses",
     "findAdminEvents"}

\* C6: whatever page and search term it asks for, an account with an empty
\* scope gets from each of the five listings an empty result and no error
C6_FailClosedListings ==
    (/\ resp.op \in Listings
     /\ resp.user \in DOMAIN admin_users
     /\ EmptyScope(admin_users[resp.user])) => NothingReturned(resp)

\* an account with an empty scope has asked for page 0 of the passes with a
\* search term, and got the empty page
C6_Witness ==
    /\ resp.op = "findAdminPasses"
    /\ resp.user \in DOMAIN admin_users
    /\ EmptyScope(admin_users[resp.user])
    /\ resp.args.page = 0
    /\ resp.args.search # NoSearch
    /\ NothingReturned(resp)

\* C7: the member view returns only passes whose gym is in the caller's scope,
\* and none at all to a caller with an empty scope
C7_MemberViewScoped ==
    (resp.op = "findAdminMemberView" /\ resp.result = "ok") =>
        \A k \in DOMAIN resp.rows :
            GymInScope(admin_users[resp.user], gym_passes[resp.rows[k]].gymId)

\* the pages a listing of the whole gyms table can have
LastPage == (Len(gyms) + pageSize - 1) \div pageSize

RECURSIVE Concat(_, _)
Concat(pages, n) == IF n = 0 THEN <<>> ELSE Concat(pages, n - 1) \o pages[n].rows

C9_ListingsWithinScope ==
    (resp.result = "ok" /\ resp.user \in DOMAIN admin_users) =>
        LET account == admin_users[resp.user]
            OwnInScope(u) ==
                {i \in PassIds : /\ gym_passes[i].userId = u
                                 /\ GymInScope(account, gym_passes[i].gymId)}
        IN /\ resp.op = "findAdminPasses" =>
                 \A k \in DOMAIN resp.rows :
                     GymInScope(account, gym_passes[resp.rows[k]].gymId)
           /\ resp.op = "findAdminMembers" =>
                 \A k \in DOMAIN resp.rows :
                     /\ resp.rows[k].passes >= 1
                     /\ resp.rows[k].passes <= Cardinality(OwnInScope(resp.rows[k].auth0_id))
           /\ resp.op = "findAdminEvents" =>
                 \A k \in DOMAIN resp.rows :
                     EventInScope(account, events[resp.rows[k]])

\* a search of the passes has matched a member, and a pass of that member at a
\* gym outside the caller's scope was held back
C9_Witness ==
    /\ resp.op = "findAdminPasses"
    /\ resp.result = "ok"
    /\ resp.args.search # NoSearch
    /\ resp.rows # <<>>
    /\ \E i \in PassIds :
          /\ i \notin Range(resp.rows)
          /\ gym_passes[i].userId = gym_passes[resp.rows[1]].userId
          /\ ~GymInScope(admin_users[resp.user], gym_passes[i].gymId)

\* C10: an 'admin' account updates a gym only when it has a chain id and the
\* gym carries the same one; an account createAdminUser creates carries its
\* creator's chain id and only gyms of that chain
C10_ChainAdminWritesOwnChain ==
    /\ (resp.op = "updateAdminGym" /\ resp.result = "ok"
            /\ admin_users[resp.user].role = "admin") =>
          /\ admin_users[resp.user].gymChainId # NoChain
          /\ FindGym(resp.args.gymId).gymChainId = admin_users[resp.user].gymChainId
    /\ (resp.op = "createAdminUser" /\ resp.result = "ok") =>
          LET creator == admin_users[resp.user]
              created == admin_users[resp.args.auth0UserId]
          IN /\ creator.gymChainId # NoChain
             /\ created.gymChainId = creator.gymChainId
             /\ \A g \in AssignedGyms(created) :
                   g \in GymIds /\ FindGym(g).gymChainId = creator.gymChainId

----------------------------------------------------------------------------
(* The pass lifecycle specifications *)

\* the rows gym_passes starts with: a pass that lapses at hour 1, a pass
\* without valid_until, a pass an earlier sweep has expired
InitPassRows ==
    {GymPassRow("auth0|u1", 1, PassCode(-1, "K3J9X0QAB"), 1, -1, "standard", 0),
     GymPassRow("auth0|u2", 2, PassCode(-1, "Z01MM4T7C"), NoDate, -1, "premium", 0),
     [GymPassRow("auth0|u1", 1, PassCode(-3, "K3J9X0QAB"), -1, -3, "standard", 0)
         EXCEPT !.status = "expired"]}

InitPassesAdminUsers ==
    ("auth0|chain1" :> AdminUserRow(1, "admin", NullArray)
     @@ "auth0|staff" :> AdminUserRow(2, "gym_staff", JsonArray(<<3>>)))

InitPasses ==
    /\ now = 0
    /\ subscriptions = <<SubscriptionRow("auth0|u1", "standard", StandardMonthlyLimit,
                                         StandardMonthlyLimit - 1, "active", "sub_A", 1, 2)>>
    /\ ledger = <<0>>
    /\ \E row \in InitPassRows : gym_passes = <<row>>
    /\ gyms = InitGyms
    /\ admin_users = InitPassesAdminUsers
    /\ auth0 = {}
    /\ events = <<>>
    /\ proc = [p \in Procs |-> Idle]
    /\ calls = 0
    /\ resp = NoResponse
    /\ sweep = NoSweep

\* the member requests, the job and the clock
NextSweep ==
    \/ \E p \in Procs : GP_Start(p)
    \/ \E p \in Procs : GP_Sub(p)
    \/ \E p \in Procs : GP_Dup(p)
    \/ \E p \in Procs : GP_Gym(p)
    \/ \E p \in Procs : GP_Save(p)
    \/ \E p \in Procs : GP_Find(p)
    \/ \E p \in Procs : GP_Inc(p)
    \/ \E p \in Procs : GP_User(p)
    \/ expirePasses
    \/ Tick

SpecSweep == InitPasses /\ [][NextSweep]_vars

\* the job is started every minute whatever the last run did, and its UPDATE
\* does not fail for ever
SpecSweepFair == SpecSweep /\ WF_vars(Tick) /\ WF_vars(Sweep(FALSE))

\* the member requests, the job, the clock and the desk's check-ins
NextPasses ==
    \/ NextSweep
    \/ CheckInPass
    \/ SendResponse

SpecPasses == InitPasses /\ [][NextPasses]_vars

----------------------------------------------------------------------------
(* The pass lifecycle *)

\* the row is overdue at time t
Overdue(pass, t) ==
    pass.status = "active" /\ pass.validUntil # NoDate /\ pass.validUntil <= t

\* the step is a run of expirePasses whose UPDATE went through
SweepRan == sweep' # sweep /\ ~sweep'.failed

\* C13: the status of a pass only ever goes from 'active' to 'expired': a
\* pass is created 'active', only a run of expirePasses changes the status of
\* a stored pass, an expired pass stays expired, and generatePass and
\* checkInPass leave status and used_at of the stored passes as they are
C13_StatusActiveThenExpired ==
    [][/\ Len(gym_passes') >= Len(gym_passes)
       /\ \A i \in DOMAIN gym_passes' \ PassIds : gym_passes'[i].status = "active"
       /\ \A i \in PassIds :
             /\ gym_passes'[i].usedAt = gym_passes[i].usedAt
             /\ gym_passes'[i].status # gym_passes[i].status =>
                   /\ gym_passes[i].status = "active"
                   /\ gym_passes'[i].status = "expired"
                   /\ SweepRan
                   /\ proc' = proc
                   /\ resp' = resp]_vars

\* a pass issued in this run was expired by the job and then looked up at the
\* desk
C13_Witness ==
    /\ resp.op = "checkInPass"
    /\ resp.result = "ok"
    /\ gym_passes[resp.rows[1]].createdAt >= 0
    /\ gym_passes[resp.rows[1]].status = "expired"

\* C14: a run of expirePasses at time now whose UPDATE goes through turns
\* every pass with status 'active' and valid_until <= now into 'expired' and
\* changes no other pass, no other field and no other table
C14_SweepExpiresExactlyOverdue ==
    [][SweepRan =>
          /\ DOMAIN gym_passes' = DOMAIN gym_passes
          /\ \A i \in PassIds :
                gym_passes'[i] = IF Overdue(gym_passes[i], now)
                                 THEN [gym_passes[i] EXCEPT !.status = "expired"]
                                 ELSE gym_passes[i]
          /\ UNCHANGED <<now, subscriptions, gyms, admin_users, auth0, events>>]_vars

\* a run expired one pass and left the passes beside it alone: one not yet
\* due, one without valid_until or one already expired
C14_Witness ==
    /\ sweep.ran
    /\ ~sweep.failed
    /\ sweep.affected = 1
    /\ gym_passes = sweep.after
    /\ Len(gym_passes) = 2
    /\ \E i \in PassIds :
          gym_passes[i].status = "active" \/ gym_passes[i].validUntil < 0

\* C15: a run of expirePasses that follows a run on the same state (no pass
\* issued and no pass fallen due since) reports 0 affected rows and leaves
\* the passes as the first run left them
C15_SweepIdempotent ==
    [][(/\ sweep.ran
        /\ ~sweep.failed
        /\ gym_passes = sweep.after
        /\ \A i \in PassIds : Overdue(gym_passes[i], now) => Overdue(gym_passes[i], sweep.at)
        /\ SweepRan) =>
          /\ sweep'.affected = 0
          /\ gym_passes' = gym_passes]_vars

\* at hour 1 a run expired the pass that fell due at hour 1 and a later run
\* at hour 1, with no pass issued, reported 0
C15_Witness ==
    /\ sweep.ran
    /\ ~sweep.failed
    /\ sweep.affected = 0
    /\ sweep.at = 1
    /\ Len(gym_passes) = 1
    /\ gym_passes[1].validUntil = 1
    /\ gym_passes[1].status = "expired"

\* C16: with the job started again and again and its UPDATE not failing for
\* ever, every pass with status 'active' and a valid_until that is reached is
\* 'expired' at some time after valid_until, whatever generatePass calls run
\* beside the job
C16_OverdueEventuallyExpired ==
    \A i \in 1..MaxPasses :
        [](((/\ i \in PassIds
             /\ gym_passes[i].status = "active"
             /\ gym_passes[i].validUntil # NoDate
             /\ gym_passes[i].validUntil <= MaxTime)) =>
              <>(/\ i \in PassIds
                 /\ gym_passes[i].status = "expired"
                 /\ gym_passes[i].validUntil <= now))

\* a pass that a generatePass call issued beside the job fell due and is
\* expired, and the run after that failed
C16_Witness ==
    \E i \in PassIds :
        /\ gym_passes[i].createdAt >= 0
        /\ gym_passes[i].status = "expired"
        /\ sweep.failed

----------------------------------------------------------------------------
(* Issuance: the outcomes of generatePass *)

\* C17: once the pass is stored and the quota counted, generatePass answers
\* with the new pass whatever happens while the member's details are loaded
\* or the e-mail is sent
C17_NotificationNeverFailsIssuance ==
    [][\A p \in Procs :
          (proc[p].pc = "gp_user" /\ proc'[p].pc = "idle") =>
              /\ resp'.op = "generatePass"
              /\ resp'.result = "ok"
              /\ gym_passes' = gym_passes
              /\ subscriptions' = subscriptions]_vars

\* the step is a step of the generatePass call in slot p
StepOf(p) == proc'[p] # proc[p]

\* the step ends the call in slot p with a failure that stored nothing
Refused(p, result) ==
    /\ proc'[p] = Idle
    /\ resp'.op = "generatePass"
    /\ resp'.result = result
    /\ gym_passes' = gym_passes
    /\ subscriptions' = subscriptions

\* C18: when the member's active subscription has visits_used >=
\* monthly_limit, generatePass fails with the quota outcome whatever the gym,
\* stores no pass and leaves visits_used as it is
C18_QuotaExceededRefused ==
    [][\A p \in Procs :
          (/\ proc[p].pc = "gp_sub"
           /\ StepOf(p)
           /\ ActiveSubIds(proc[p].user) # {}
           /\ \A id \in ActiveSubIds(proc[p].user) :
                 subscriptions[id].visitsUsed >= subscriptions[id].monthlyLimit) =>
              Refused(p, "QuotaExceeded")]_vars

\* a call of a member whose subscription had used up its visits was refused
C18_Witness ==
    /\ resp.op = "generatePass"
    /\ resp.result = "QuotaExceeded"
    /\ \E id \in ActiveSubIds(resp.user) :
          subscriptions[id].visitsUsed >= subscriptions[id].monthlyLimit

\* the member holds a pass with valid_until > t, whatever its status or gym
HoldsValidPass(user, t) ==
    \E i \in PassIds : /\ gym_passes[i].userId = user
                        /\ gym_passes[i].validUntil # NoDate
                        /\ gym_passes[i].validUntil > t

\* C19: a call that has found the active subscription under quota fails with
\* the duplicate-pass outcome and stores nothing when the member holds a pass
\* with valid_until > now, and goes on to issue when the member holds none,
\* also when a pass that fell due still has status 'active'
C19_DuplicateUntilValidUntil ==
    [][\A p \in Procs :
          (proc[p].pc = "gp_dup" /\ StepOf(p)) =>
              IF HoldsValidPass(proc[p].user, now)
              THEN Refused(p, "DuplicateActivePass")
              ELSE /\ proc'[p].pc = "gp_gym"
                   /\ resp' = resp]_vars

\* a member was issued a pass after the pass they held had fallen due and
\* before a run of the job expired it
C19_Witness ==
    \E i, j \in PassIds :
        /\ gym_passes[i].userId = gym_passes[j].userId
        /\ gym_passes[i].status = "active"
        /\ gym_passes[i].validUntil # NoDate
        /\ gym_passes[i].validUntil <= gym_passes[j].createdAt
        /\ gym_passes[j].createdAt > gym_passes[i].createdAt

\* standard = 1 < premium = 2 < elite = 3, whatever the case of the letters
\* (0: none of the three)
TierLevel(tier) ==
    CASE tier \in {"standard", "STANDARD"} -> 1
      [] tier \in {"premium", "Premium"} -> 2
      [] tier \in {"elite", "Elite"} -> 3
      [] OTHER -> 0

\* C20: for a call that has found the active subscription under quota and no
\* valid pass, and a gym that exists and is active, the call goes on to issue
\* the pass exactly when the level of the subscription's tier is at least
\* the level of the gym's required tier; otherwise it fails with the tier
\* outcome and stores nothing
C20_TierOrderDecides ==
    [][\A p \in Procs :
          (/\ proc[p].pc = "gp_gym"
           /\ StepOf(p)
           /\ proc[p].gymId \in GymIds
           /\ FindGym(proc[p].gymId).status = "active"
           /\ TierLevel(proc[p].sub.tier) > 0
           /\ TierLevel(FindGym(proc[p].gymId).requiredTier) > 0) =>
              IF TierLevel(proc[p].sub.tier) >= TierLevel(FindGym(proc[p].gymId).requiredTier)
              THEN proc'[p].pc = "gp_save" /\ resp' = resp
              ELSE Refused(p, "TierNotAllowed")]_vars

\* a 'Premium' subscription was issued a pass for the gym that requires
\* 'premium'
C20_Witness ==
    \E i \in PassIds :
        /\ gym_passes[i].subscriptionTier = "Premium"
        /\ gym_passes[i].gymId = 2
        /\ gym_passes[i].createdAt >= 0

----------------------------------------------------------------------------
(* The tier rule on tiers outside the three names *)

\* the tier strings a subscription row may hold: the three names, in the
\* cases Stripe's metadata was seen with, and a name that is none of them
TierStrings == {"standard", "Premium", "elite", "gold"}

InitTiers ==
    /\ now = 0
    /\ \E tier \in TierStrings :
          subscriptions = <<SubscriptionRow("auth0|u1", tier, LimitsFor(tier).monthlyLimit,
                                            0, "active", "sub_A", 1, 2)>>
    /\ ledger = <<0>>
    /\ gym_passes = <<>>
    /\ gyms = InitGyms
    /\ admin_users = <<>>
    /\ auth0 = {}
    /\ events = <<>>
    /\ proc = [p \in Procs |-> Idle]
    /\ calls = 0
    /\ resp = NoResponse
    /\ sweep = NoSweep

\* the member's requests and the clock
NextTiers ==
    \/ \E p \in Procs : GP_Start(p)
    \/ \E p \in Procs : GP_Sub(p)
    \/ \E p \in Procs : GP_Dup(p)
    \/ \E p \in Procs : GP_Gym(p)
    \/ \E p \in Procs : GP_Save(p)
    \/ \E p \in Procs : GP_Find(p)
    \/ \E p \in Procs : GP_Inc(p)
    \/ \E p \in Procs : GP_User(p)
    \/ Tick

SpecTiers == InitTiers /\ [][NextTiers]_vars

\* the call in slot p is at the tier rule, for a gym that exists and is active
AtTierRule(p) ==
    /\ proc[p].pc = "gp_gym"
    /\ StepOf(p)
    /\ proc[p].gymId \in GymIds
    /\ FindGym(proc[p].gymId).status = "active"

\* C21: a gym whose required tier is none of standard, premium, elite is
\* out of reach: validateTierAccess answers false for every subscription
\* tier, the call is refused with the tier outcome and no pass is ever
\* stored for such a gym
C21_UnknownGymTierUnreachable ==
    /\ [](\A tier \in TierStrings : ~validateTierAccess(tier, "platinum"))
    /\ [](\A i \in PassIds : TierLevel(FindGym(gym_passes[i].gymId).requiredTier) > 0)
    /\ [][\A p \in Procs :
            (AtTierRule(p) /\ TierLevel(FindGym(proc[p].gymId).requiredTier) = 0) =>
                Refused(p, "TierNotAllowed")]_vars

\* a member with an 'elite' subscription was refused by the tier rule, which
\* only the gym that requires 'platinum' does to them
C21_Witness ==
    /\ resp.op = "generatePass"
    /\ resp.result = "TierNotAllowed"
    /\ \A id \in SubIds : subscriptions[id].tier = "elite"

\* C22: a subscription whose tier is none of the three names has the access
\* of a standard subscription: its call goes on to issue for a gym that
\* requires standard and is refused for a gym that requires premium or elite
C22_UnknownSubscriptionTierAsStandard ==
    [][\A p \in Procs :
          (/\ AtTierRule(p)
           /\ TierLevel(proc[p].sub.tier) = 0
           /\ TierLevel(FindGym(proc[p].gymId).requiredTier) > 0) =>
              IF TierLevel(FindGym(proc[p].gymId).requiredTier) = 1
              THEN proc'[p].pc = "gp_save" /\ resp' = resp
              ELSE Refused(p, "TierNotAllowed")]_vars

\* C26: a generatePass call that answers with a failure of any kind has
\* stored no pass and has not counted a visit, and the step that fails it
\* writes nothing; a pass exists only for a call that answers with success
C26_FailureStoresNothing ==
    [][\A p \in Procs :
          (/\ proc[p].op = "generatePass"
           /\ proc'[p] = Idle
           /\ resp'.op = "generatePass"
           /\ resp'.result # "ok") =>
              /\ proc[p].passId = 0
              /\ proc[p].pc \notin {"gp_find", "gp_inc", "gp_user"}
              /\ gym_passes' = gym_passes
              /\ subscriptions' = subscriptions]_vars

\* C28: a reset of the billing period is not lost to an issuance that runs
\* beside it: when handleSubscriptionUpdated has changed the period dates of
\* the row since the generatePass call read it, the call's increment adds one
\* to the count as it is stored, the count of the new period, and leaves the
\* new period dates in place
C28_ResetNotLost ==
    [][\A p \in Procs :
          (/\ proc[p].pc = "gp_inc"
           /\ StepOf(p)
           /\ \/ subscriptions[proc[p].entId].currentPeriodStart # proc[p].ent.currentPeriodStart
              \/ subscriptions[proc[p].entId].currentPeriodEnd # proc[p].ent.currentPeriodEnd) =>
              LET before == subscriptions[proc[p].entId]
                  after == subscriptions'[proc[p].entId]
              IN /\ after.visitsUsed = before.visitsUsed + 1
                 /\ after.currentPeriodStart = before.currentPeriodStart
                 /\ after.currentPeriodEnd = before.currentPeriodEnd]_vars

----------------------------------------------------------------------------
(* The stored pass *)

C27_ExpiredOnlyWhenDue ==
    \A i \in PassIds :
        gym_passes[i].status = "expired" =>
            gym_passes[i].validUntil # NoDate /\ gym_passes[i].validUntil <= now

\* a sweep has expired a pass at the very hour its valid_until was reached,
\* while a generatePass call is in flight
C27_Witness ==
    /\ sweep.ran /\ ~sweep.failed /\ sweep.affected > 0 /\ sweep.at = now
    /\ \E i \in PassIds : gym_passes[i].status = "expired" /\ gym_passes[i].validUntil = now
    /\ \E p \in Procs : proc[p].op = "generatePass"

----------------------------------------------------------------------------
(* Check-in *)

\* the chains an account stands for at the desk: its chain id for a chain
\* admin, the chains that own its assigned gyms for gym_admin and gym_staff,
\* none for any other account
StaffChains(auth0Id) ==
    IF auth0Id \notin DOMAIN admin_users
    THEN {}
    ELSE LET adminUser == admin_users[auth0Id] IN
         IF adminUser.role = "admin"
         THEN {adminUser.gymChainId} \ {NoChain}
         ELSE IF adminUser.role \in {"gym_admin", "gym_staff"} /\ ~adminUser.accessGyms.isNull
         THEN {FindGym(g).gymChainId :
                  g \in {adminUser.accessGyms.items[k] : k \in 1..Len(adminUser.accessGyms.items)}
                           \cap GymIds} \ {NoChain}
         ELSE {}

\* a check-in was answered
CheckedIn == resp.op = "checkInPass" /\ resp.user \in DOMAIN admin_users

\* C24: a check-in returns the pass exactly when a pass with the normalized
\* code exists and the chain of its gym is the chain of the staff account,
\* which is the chain id of a chain admin and the chain that owns the
\* assigned gyms of a gym_admin or gym_staff; the assigned gyms restrict
\* nothing beyond that
C24_CheckInChainScoped ==
    CheckedIn =>
        LET matches == PassIdsByCode(NormalizePassCode(resp.args.passCode)) IN
        (resp.result = "ok") <=>
            /\ matches # {}
            /\ \E id \in matches :
                  /\ resp.rows = <<id>>
                  /\ FindGym(gym_passes[id].gymId).gymChainId \in StaffChains(resp.user)

\* the canonical form of a typed code: trimmed, with the prefix in the
\* casing 'PASS-', put in front when the code has none in any casing
CanonicalPassCode(passCode) ==
    LET typed == trim(passCode)
    IN IF startsWithPass(typed)
       THEN <<"PASS-">> \o Tail(typed)
       ELSE <<"PASS-">> \o typed

\* C25: checkInPass looks the pass up by the canonical form of the typed
\* code: a code without the prefix gets 'PASS-', a code with the prefix in
\* any letter case is looked up with 'PASS-' and no second prefix, and
\* normalizing a normalized code changes nothing
C25_LookupByCanonicalCode ==
    /\ \A passCode \in CheckInCodes :
          NormalizePassCode(NormalizePassCode(passCode)) = NormalizePassCode(passCode)
    /\ (CheckedIn /\ admin_users[resp.user].gymChainId # NoChain) =>
          LET matches == PassIdsByCode(CanonicalPassCode(resp.args.passCode)) IN
          /\ resp.result = "NotFound" <=> matches = {}
          /\ resp.result = "ok" => resp.rows[1] \in matches

\* C30: what a check-in answers does not depend on where the pass is in its
\* life: for an account of the chain of the pass's gym it returns the pass
\* with the code (one of them, should several passes carry it) whether the
\* status is 'active' or 'expired' and whether valid_until is before or
\* after now, and it changes no pass, so that the same pass can be checked
\* in again with the same answer
C30_CheckInIgnoresLifecycle ==
    [][(resp'.op = "checkInPass" /\ resp' # resp /\ resp'.user \in DOMAIN admin_users) =>
          LET matches == PassIdsByCode(NormalizePassCode(resp'.args.passCode))
              ofChain == {id \in matches :
                            /\ admin_users[resp'.user].gymChainId # NoChain
                            /\ FindGym(gym_passes[id].gymId).gymChainId
                                  = admin_users[resp'.user].gymChainId}
          IN /\ gym_passes' = gym_passes
             /\ (matches # {} /\ ofChain = matches) =>
                    resp'.result = "ok" /\ \E id \in matches : resp'.rows = <<id>>
             /\ resp'.result = "ok" => \E id \in ofChain : resp'.rows = <<id>>]_vars

\* a pass that is expired and past its valid_until was returned to the desk
C30_Witness ==
    /\ CheckedIn
    /\ resp.result = "ok"
    /\ gym_passes[resp.rows[1]].status = "expired"
    /\ gym_passes[resp.rows[1]].validUntil < now

----------------------------------------------------------------------------
(* The permission of an account *)

\* C29: the permission of an account is enforced on writes: for a caller
\* whose permission is 'read', updateAdminGym changes no gym and
\* createAdminUser makes no account
C29_ReadPermissionCannotWrite ==
    (/\ resp.op \in {"updateAdminGym", "createAdminUser"}
     /\ resp.user \in DOMAIN admin_users
     /\ admin_users[resp.user].permission = "read") =>
        resp.result # "ok"

----------------------------------------------------------------------------
(* Account creation *)

\* the gyms a createAdminUser request names
RequestedGyms(createUserDto) == Range(createUserDto.access_gyms.items)

\* the step answers a createAdminUser request of an account of one of the roles
CreateAdminUserBy(roles) ==
    /\ Ready
    /\ resp'.op = "createAdminUser"
    /\ resp'.user \in DOMAIN admin_users
    /\ admin_users[resp'.user].role \in roles

\* C11: an account that createAdminUser creates for a gym_admin is assigned
\* only gyms the creator is assigned, and a request of a gym_admin that names
\* a gym outside the creator's set fails and creates no account, neither in
\* Auth0 nor in admin_users
C11_GymAdminHandsDownOwnGyms ==
    [][CreateAdminUserBy({"gym_admin"}) =>
          LET creator == admin_users[resp'.user]
              requested == RequestedGyms(resp'.args.createUserDto)
          IN /\ resp'.result = "ok" =>
                   /\ resp'.args.auth0UserId \notin DOMAIN admin_users
                   /\ AssignedGyms(admin_users'[resp'.args.auth0UserId])
                          \subseteq AssignedGyms(creator)
             /\ ~(requested \subseteq AssignedGyms(creator)) =>
                   /\ resp'.result # "ok"
                   /\ admin_users' = admin_users
                   /\ auth0' = auth0]_vars

\* a gym_admin has created an account and handed gyms down to it
C11_Witness ==
    /\ resp.op = "createAdminUser"
    /\ resp.result = "ok"
    /\ admin_users[resp.user].role = "gym_admin"
    /\ AssignedGyms(admin_users[resp.args.auth0UserId]) # {}

\* C12: createAdminUser called by a gym_staff account, or by an account of any
\* role other than admin and gym_admin, answers Forbidden whatever the body,
\* creates no Auth0 user and adds neither an admin_users row nor an event
C12_StaffCannotCreateAccounts ==
    [][(/\ Ready
        /\ resp'.op = "createAdminUser"
        /\ resp'.user \in DOMAIN admin_users
        /\ admin_users[resp'.user].role \notin {"admin", "gym_admin"}) =>
          /\ resp'.result = "Forbidden"
          /\ auth0' = auth0
          /\ admin_users' = admin_users
          /\ events' = events]_vars

\* a gym_staff account asked for an account with gyms of its own and was
\* refused
C12_Witness ==
    /\ resp.op = "createAdminUser"
    /\ resp.result = "Forbidden"
    /\ resp.user \in DOMAIN admin_users
    /\ admin_users[resp.user].role = "gym_staff"
    /\ RequestedGyms(resp.args.createUserDto) # {}

====
